---- MODULE Spec2Model ----
(***************************************************************************)
(* Model of the Blink camera snapshot poller, blink_snapshot.py.           *)
(*                                                                         *)
(* One process invocation is modelled step by step: main() checks the      *)
(* configuration and dispatches on the argument vector to setup_blink,     *)
(* the once() coroutine or run_daemon; poll_once is shared by the last     *)
(* two.  The third-party session library (blinkpy) and the storage         *)
(* endpoint are outside the repository: every call into them is a step     *)
(* whose outcome (return value or exception) is chosen nondeterministically.*)
(* The credential file survives the process, so a finished process may be  *)
(* followed by a new invocation (Restart).                                 *)
(***************************************************************************)
EXTENDS Integers, Sequences, FiniteSets, TLC

\* ---------------------------------------------------------------- bounds
MaxDevices == 2      \* cameras known to the session
MaxArgs == 3         \* command-line arguments after the program name

\* ------------------------------------------------------ program constants
MinImageBytes == 100                         \* line 155: len(jpeg) < 100
SNAPSHOT_PATH == <<"cameras/blink-latest.jpg">>      \* line 49
PathPrefix == <<"cameras/blink-">>                   \* line 161
PathSuffix == <<"-latest.jpg">>                      \* line 161

\* ------------------------------------------------------------ input sets
\* Words an argument vector is built from: the three recognised flags and a
\* word that is no flag (it serves as the pin after --pin and as an
\* unrecognised argument anywhere else).
Tokens == {"--setup", "--once", "--pin", "123456"}
ArgVectors == UNION {[1..n -> Tokens] : n \in 0..MaxArgs}

NoPin == "<None>"                            \* Python None for pin
EnvValues == {"", "set"}                     \* an unset/empty or a set variable
Unset == "<unset>"                           \* a variable missing from os.environ
DefaultUrl == "https://aphrrfprbixmhissnjfn.supabase.co"     \* line 42
UrlEnvValues == {Unset, "https://project.supabase.co"}

\* os.environ.get(name, default)
EnvGet(value, default) == IF value = Unset THEN default ELSE value

\* A cached thumbnail: None (present = FALSE) or a byte string, represented by
\* its length; two byte strings of different length differ byte for byte.
NoImage == [present |-> FALSE, len |-> 0]
Bytes(n) == [present |-> TRUE, len |-> n]
Images == {NoImage, Bytes(99), Bytes(100), Bytes(2048)}

\* HTTP outcome of the PUT: a status code, or 0 for a network exception
\* raised by urlopen before any response arrived.
Responses == {200, 201, 204, 500, 0}

\* Camera names, in the provider's enumeration order (dict keys: distinct).
Digits == <<"1", "2", "3", "4", "5", "6">>
DeviceName(k) == IF k % 2 = 1 THEN <<"C", "a", "m", " ", Digits[k]>>
                              ELSE <<"Y", "/", "D", Digits[k]>>

VARIABLES
    BLINK_EMAIL, BLINK_PASSWORD, SUPABASE_KEY,   \* module configuration
    SUPABASE_URL,    \* module configuration: the storage endpoint root
    argv,            \* sys.argv[1:], until the selected mode has begun
    authData,        \* login data the Auth object was built from
    credFile,        \* CRED_FILE on disk: "absent" or "session"
    pc,              \* position of the process
    mode,            \* branch main() took: "none", "setup", "once", "daemon"
    pin,             \* setup_blink's pin argument
    needs_2fa,       \* setup_blink's local needs_2fa
    result,          \* setup_blink's local result: "none", "accepted", "rejected"
    started,         \* blink.start() has returned normally in this process
    cameras,         \* blink.cameras: sequence of [name, image]
    i, jpeg, j,      \* poll_once's locals: loop index, image read, capture index
    uploads,         \* upload_to_supabase calls of the current cycle, in order
    lastUpload,      \* outcome of the most recent upload_to_supabase call
    warned,          \* devices for which 'No thumbnail' was logged this cycle
    snaps,           \* snap_picture calls of the current cycle, in order
    cycle,           \* poll_once: "none", "running", "returned", "raised"
    cycles,          \* poll cycles begun by this process: 0, 1, 2 (= two or more)
    pollErrors,      \* 'Poll error' has been logged for the current cycle
    saves,           \* blink.save calls of this process
    enumerated,      \* setup_blink has listed the cameras
    netActivity,     \* the process has made a network call
    exitCode,        \* -1 while running, else the process exit status
    exitCause        \* why the process ended

vars == <<BLINK_EMAIL, BLINK_PASSWORD, SUPABASE_KEY, SUPABASE_URL, argv,
          authData, credFile, pc, mode, pin,
          needs_2fa, result, started, cameras, i, jpeg, j, uploads, lastUpload,
          warned, snaps, cycle, cycles, pollErrors, saves, enumerated,
          netActivity, exitCode, exitCause>>

config == <<BLINK_EMAIL, BLINK_PASSWORD, SUPABASE_KEY, SUPABASE_URL>>
setupLocals == <<needs_2fa, result>>
pollLocals == <<i, jpeg, j>>
cycleLog == <<uploads, lastUpload, warned, snaps>>

NoUpload == [status |-> -1, ret |-> FALSE, logged |-> "none"]

\* ------------------------------------------------------- pure operators

\* str.lower() on one character
Lower(c) == CASE c = "C" -> "c" [] c = "Y" -> "y" [] c = "D" -> "d" [] OTHER -> c

\* line 160: name.lower().replace(' ', '-').replace('/', '-')
SafeName(name) ==
    [k \in 1..Len(name) |->
        LET c == Lower(name[k]) IN IF c = " " \/ c = "/" THEN "-" ELSE c]

\* line 161: f'cameras/blink-{safe_name}-latest.jpg'
DevicePath(name) == PathPrefix \o SafeName(name) \o PathSuffix

\* The length check forgotten: only a missing image is skipped.
IsAbsent_NoLengthCheck(img) == ~img.present

\* line 155: not jpeg or len(jpeg) < 100
IsAbsent(img) == (~img.present) \/ img.len = 0 \/ img.len < MinImageBytes

\* The index test forgotten: every camera is also uploaded to the alias.
IsPrimary_Always(k) == TRUE

\* The index off by one: the second camera feeds the alias.
IsPrimary_OffByOne(k) == k = 2

\* line 164: if i == 0 (the model counts devices from 1)
IsPrimary(k) == k = 1

\* The alias upload reads the cache again, and of the wrong camera.
AliasPayload_Reread(img, cams) == cams[Len(cams)].image

\* line 165: the bytes handed to the alias upload are the local jpeg
AliasPayload(img, cams) == img

\* The except clauses forgotten: HTTPError and network exceptions propagate.
UploadOutcome_Propagates(status) ==
    IF status \in {200, 201}
    THEN [ret |-> TRUE, logged |-> "INFO", raised |-> FALSE]
    ELSE IF status >= 200 /\ status < 300
    THEN [ret |-> FALSE, logged |-> "none", raised |-> FALSE]
    ELSE [ret |-> FALSE, logged |-> "none", raised |-> TRUE]

\* lines 69-79: what upload_to_supabase does with the outcome of the PUT.
\* urlopen raises HTTPError for every status outside 200..299, and any other
\* exception for a network failure; both are caught.
UploadOutcome(status) ==
    IF status \in {200, 201}
    THEN [ret |-> TRUE, logged |-> "INFO", raised |-> FALSE]
    ELSE IF status = 0
    THEN [ret |-> FALSE, logged |-> "ERROR:exception", raised |-> FALSE]
    ELSE IF status >= 200 /\ status < 300
    THEN [ret |-> FALSE, logged |-> "none", raised |-> FALSE]
    ELSE [ret |-> FALSE, logged |-> "ERROR:status+body[:200]", raised |-> FALSE]

\* lines 226-229: the pin main() passes to setup_blink
ParsePin(args) ==
    IF \E k \in 1..Len(args) : args[k] = "--pin"
    THEN LET first == CHOOSE k \in 1..Len(args) :
                          args[k] = "--pin" /\ \A m \in 1..(k-1) : args[m] # "--pin"
         IN IF first + 1 <= Len(args) THEN args[first + 1] ELSE NoPin
    ELSE NoPin

Has(args, flag) == \E k \in 1..Len(args) : args[k] = flag

\* The two tests in the other order: --once wins over --setup.
SelectMode_OnceFirst(args) ==
    IF \E k \in 1..Len(args) : args[k] = "--once" THEN "once"
    ELSE IF \E k \in 1..Len(args) : args[k] = "--setup" THEN "setup"
    ELSE "daemon"

\* lines 224-247: the branch main() takes
SelectMode(args) ==
    IF Has(args, "--setup") THEN "setup"
    ELSE IF Has(args, "--once") THEN "once"
    ELSE "daemon"

\* line 112: not pin
PinMissing(p) == p = NoPin \/ p = ""

\* ------------------------------------------------------------ initial state
Init ==
    /\ BLINK_EMAIL \in EnvValues
    /\ BLINK_PASSWORD \in EnvValues
    /\ SUPABASE_KEY \in EnvValues
    /\ \E e \in UrlEnvValues : SUPABASE_URL = EnvGet(e, DefaultUrl)
    /\ argv \in ArgVectors
    /\ authData = "none"
    /\ credFile = "absent"
    /\ pc = "main"
    /\ mode = "none"
    /\ pin = NoPin
    /\ needs_2fa = FALSE
    /\ result = "none"
    /\ started = FALSE
    /\ cameras = <<>>
    /\ i = 0
    /\ jpeg = NoImage
    /\ j = 0
    /\ uploads = <<>>
    /\ lastUpload = NoUpload
    /\ warned = {}
    /\ snaps = <<>>
    /\ cycle = "none"
    /\ cycles = 0
    /\ pollErrors = FALSE
    /\ saves = 0
    /\ enumerated = FALSE
    /\ netActivity = FALSE
    /\ exitCode = -1
    /\ exitCause = "running"

\* The process ends with the given status.
Exit(code, cause) ==
    /\ pc' = "exit"
    /\ exitCode' = code
    /\ exitCause' = cause

Running == UNCHANGED <<exitCode, exitCause>>

\* ------------------------------------------------------------------ main()
\* line 217: not BLINK_EMAIL or not BLINK_PASSWORD
BlinkCredsMissing(email, password) == email = "" \/ password = ""

\* The check of the storage key forgotten.
SupabaseKeyMissing_Unchecked(key) == FALSE

\* line 220: not SUPABASE_KEY
SupabaseKeyMissing(key) == key = ""

\* lines 216-247
Main ==
    /\ pc = "main"
    /\ IF BlinkCredsMissing(BLINK_EMAIL, BLINK_PASSWORD)
       THEN /\ Exit(1, "config:blink")
            /\ UNCHANGED <<mode, pin>>
       ELSE IF SupabaseKeyMissing(SUPABASE_KEY)
       THEN /\ Exit(1, "config:supabase")
            /\ UNCHANGED <<mode, pin>>
       ELSE /\ mode' = SelectMode(argv)
            /\ pin' = IF SelectMode(argv) = "setup" THEN ParsePin(argv) ELSE NoPin
            /\ pc' = CASE SelectMode(argv) = "setup" -> "setup_start"
                       [] SelectMode(argv) = "once" -> "once_restore"
                       [] OTHER -> "daemon_entry"
            /\ Running
    /\ UNCHANGED <<config, argv, authData,
                   credFile, setupLocals, started, cameras, pollLocals,
                   cycleLog, cycle, cycles, pollErrors, saves, enumerated,
                   netActivity>>

\* ------------------------------------------------- building the Auth object
\* What json_load(CRED_FILE) hands to Auth: the file's content, or nothing
\* when there is no file (json_load logs and returns None).
Restored(file) == IF file = "absent" THEN "empty" ELSE "file"

\* The login data built from the environment instead of the file.
AuthSource_Env(m, file) == "env"

\* lines 93, 193, 240: Auth gets BLINK_EMAIL/BLINK_PASSWORD in setup and the
\* content of CRED_FILE in once and daemon mode
AuthSource(m, file) == IF m = "setup" THEN "env" ELSE Restored(file)

\* ------------------------------------------------------------ setup_blink
\* blink.cameras once blink.start() has returned: n cameras, thumbnails not
\* yet read by this program (poll_once refreshes before it reads any).
CameraList(n) == [k \in 1..n |-> [name |-> DeviceName(k), image |-> NoImage]]

\* The early return forgotten: setup goes on to save and list the cameras.
AfterRejectedPin_FallThrough == "save"

\* lines 119-121: a falsy result of complete_2fa_login ends setup
AfterRejectedPin == "return"

\* lines 90-115: Auth built from BLINK_EMAIL and BLINK_PASSWORD, blink.start()
\* and the 2FA decision
Setup_Start ==
    /\ pc = "setup_start"
    /\ argv' = <<>>
    /\ authData' = AuthSource(mode, credFile)
    /\ netActivity' = TRUE
    /\ \E outcome \in {"ok", "2fa", "error"} :
        CASE outcome = "ok" ->
                /\ \E n \in 0..MaxDevices : cameras' = CameraList(n)
                /\ started' = TRUE
                /\ needs_2fa' = FALSE
                /\ pc' = "setup_save"
                /\ Running
          [] outcome = "2fa" ->
                /\ needs_2fa' = TRUE
                /\ IF PinMissing(pin)
                   THEN Exit(0, "setup:2fa_pending")
                   ELSE pc' = "setup_2fa" /\ Running
                /\ UNCHANGED <<cameras, started>>
          [] OTHER ->
                /\ Exit(1, "login_error")
                /\ UNCHANGED <<cameras, started, needs_2fa>>
    /\ UNCHANGED <<config, credFile, mode, pin, result, pollLocals, cycleLog,
                   cycle, cycles, pollErrors, saves, enumerated>>

\* lines 117-123: auth.complete_2fa_login(pin)
Setup_2FA ==
    /\ pc = "setup_2fa"
    /\ \E r \in {"accepted", "rejected", "error"} :
        CASE r = "accepted" ->
                /\ result' = "accepted"
                /\ pc' = "setup_restart"
                /\ Running
          [] r = "rejected" ->
                /\ result' = "rejected"
                /\ IF AfterRejectedPin = "return"
                   THEN Exit(0, "setup:pin_rejected")
                   ELSE pc' = "setup_save" /\ Running
          [] OTHER ->
                /\ Exit(1, "2fa_error")
                /\ UNCHANGED result
    /\ UNCHANGED <<config, argv, authData,
                   credFile, mode, pin, needs_2fa, started, cameras,
                   pollLocals, cycleLog, cycle, cycles, pollErrors, saves,
                   enumerated, netActivity>>

\* lines 124-135: blink.start() again, setup_post_verify() if it raises;
\* a failure of both is swallowed ("Still save what we have")
Setup_Restart ==
    /\ pc = "setup_restart"
    /\ \E outcome \in {"start_ok", "post_verify_ok", "both_raise"} :
        IF outcome = "both_raise"
        THEN UNCHANGED <<cameras, started>>
        ELSE /\ \E n \in 0..MaxDevices : cameras' = CameraList(n)
             /\ started' = TRUE
    /\ pc' = "setup_save"
    /\ Running
    /\ UNCHANGED <<config, argv, authData,
                   credFile, mode, pin, setupLocals, pollLocals,
                   cycleLog, cycle, cycles, pollErrors, saves, enumerated,
                   netActivity>>

\* lines 137-145: blink.save(CRED_FILE), list the cameras, return
Setup_Save ==
    /\ pc = "setup_save"
    /\ credFile' = "session"
    /\ saves' = saves + 1
    /\ enumerated' = TRUE
    /\ Exit(0, "setup:complete")
    /\ UNCHANGED <<config, argv, authData,
                   mode, pin, setupLocals, started, cameras,
                   pollLocals, cycleLog, cycle, cycles, pollErrors,
                   netActivity>>

\* The Session Manager's state as the program holds it: before the login
\* attempt, after a login that asked for 2FA and has no accepted pin yet,
\* after a login error, or authenticated.
SessionState ==
    IF exitCause \in {"login_error", "2fa_error", "daemon:2fa_required", "once:2fa_required"}
    THEN "Fatal"
    ELSE IF needs_2fa /\ result # "accepted" THEN "AwaitingTwoFactor"
    ELSE IF started \/ result = "accepted" THEN "Ready"
    ELSE "Unauthenticated"

\* ----------------------------------------------- how poll_once's callers end it
\* The daemon's try/except forgotten: a poll error ends the process.
PollErrorHandler_Propagate(m) == "propagate"

\* lines 209-212 and 243: run_daemon wraps poll_once in try/except Exception,
\* logs 'Poll error' and goes on to the sleep; once() has no handler.
PollErrorHandler(m) == IF m = "daemon" THEN "log_and_sleep" ELSE "propagate"

\* An exception leaves poll_once.
PollRaise(cause) ==
    /\ cycle' = "raised"
    /\ IF PollErrorHandler(mode) = "log_and_sleep"
       THEN /\ pollErrors' = TRUE
            /\ pc' = "daemon_sleep"
            /\ Running
       ELSE /\ pollErrors' = FALSE
            /\ Exit(1, cause)

\* poll_once returns normally.
PollReturn ==
    /\ cycle' = "returned"
    /\ pc' = IF mode = "daemon" THEN "daemon_sleep" ELSE "once_save"
    /\ pollErrors' = FALSE
    /\ Running

\* ----------------------------------------------------------------- once()
\* lines 238-241: Blink and Auth built from json_load(CRED_FILE); no network
Once_Restore ==
    /\ pc = "once_restore"
    /\ pc' = "once_start"
    /\ argv' = <<>>
    /\ authData' = AuthSource(mode, credFile)
    /\ UNCHANGED <<config, credFile, mode, pin, setupLocals, started, cameras,
                   pollLocals, cycleLog, cycle, cycles, pollErrors, saves,
                   enumerated, netActivity, exitCode, exitCause>>

\* line 242: blink.start(); an exception (2FA required or any other) is not
\* caught
Once_Start ==
    /\ pc = "once_start"
    /\ netActivity' = TRUE
    /\ \E outcome \in {"ok", "2fa", "error"} :
        CASE outcome = "ok" ->
                /\ \E n \in 0..MaxDevices : cameras' = CameraList(n)
                /\ started' = TRUE
                /\ pc' = "poll_refresh"
                /\ Running
          [] outcome = "2fa" ->
                /\ Exit(1, "once:2fa_required")
                /\ UNCHANGED <<cameras, started>>
          [] OTHER ->
                /\ Exit(1, "login_error")
                /\ UNCHANGED <<cameras, started>>
    /\ UNCHANGED <<config, argv, authData,
                   credFile, mode, pin, setupLocals, pollLocals,
                   cycleLog, cycle, cycles, pollErrors, saves, enumerated>>

\* line 244: blink.save(CRED_FILE), then the process ends
Once_Save ==
    /\ pc = "once_save"
    /\ credFile' = "session"
    /\ saves' = saves + 1
    /\ Exit(0, "once:complete")
    /\ UNCHANGED <<config, argv, authData,
                   mode, pin, setupLocals, started, cameras,
                   pollLocals, cycleLog, cycle, cycles, pollErrors,
                   enumerated, netActivity>>

\* ------------------------------------------------------------ run_daemon()
\* The existence check forgotten.
CredFileMissing_Unchecked(file) == FALSE

\* line 187: not Path(CRED_FILE).exists()
CredFileMissing(file) == file = "absent"

\* lines 187-194: no credential file, exit 1; else Blink and Auth built from
\* json_load(CRED_FILE), no network
Daemon_Entry ==
    /\ pc = "daemon_entry"
    /\ argv' = <<>>
    /\ IF CredFileMissing(credFile)
       THEN /\ Exit(1, "no_cred_file")
            /\ UNCHANGED authData
       ELSE /\ pc' = "daemon_start"
            /\ authData' = AuthSource(mode, credFile)
            /\ Running
    /\ UNCHANGED <<config, credFile, mode, pin, setupLocals, started, cameras,
                   pollLocals, cycleLog, cycle, cycles, pollErrors, saves,
                   enumerated, netActivity>>

\* lines 196-205: blink.start()
Daemon_Start ==
    /\ pc = "daemon_start"
    /\ netActivity' = TRUE
    /\ \E outcome \in {"ok", "2fa", "error"} :
        CASE outcome = "ok" ->
                /\ \E n \in 0..MaxDevices : cameras' = CameraList(n)
                /\ started' = TRUE
                /\ pc' = "poll_refresh"
                /\ Running
          [] outcome = "2fa" ->
                /\ Exit(1, "daemon:2fa_required")
                /\ UNCHANGED <<cameras, started>>
          [] OTHER ->
                /\ Exit(1, "login_error")
                /\ UNCHANGED <<cameras, started>>
    /\ UNCHANGED <<config, argv, authData,
                   credFile, mode, pin, setupLocals, pollLocals,
                   cycleLog, cycle, cycles, pollErrors, saves, enumerated>>

\* line 213: asyncio.sleep(POLL_INTERVAL), then the next iteration.  The
\* finished call of poll_once leaves nothing behind: its locals are gone and
\* the record of its cycle is closed.
Daemon_Sleep ==
    /\ pc = "daemon_sleep"
    /\ pc' = "poll_refresh"
    /\ i' = 0
    /\ jpeg' = NoImage
    /\ j' = 0
    /\ uploads' = <<>>
    /\ lastUpload' = NoUpload
    /\ warned' = {}
    /\ snaps' = <<>>
    /\ cycle' = "none"
    /\ pollErrors' = FALSE
    /\ UNCHANGED <<config, argv, authData,
                   credFile, mode, pin, setupLocals, started, cameras,
                   cycles, saves, enumerated, netActivity, exitCode, exitCause>>

\* -------------------------------------------------------------- poll_once()
\* The cameras with freshly cached thumbnails.
Refreshed(cams, imgs) == [k \in 1..Len(cams) |-> [cams[k] EXCEPT !.image = imgs[k]]]

\* The refresh wrapped in a try that swallows its failure: the cycle goes on
\* with the thumbnails cached before.
RefreshErrorHandler_Swallow == "swallow"

\* line 150: the await stands in no try of poll_once, its exception leaves it
RefreshErrorHandler == "propagate"

\* line 150: blink.refresh(force=True)
Poll_Refresh ==
    /\ pc = "poll_refresh"
    /\ cycles' = IF cycles < 2 THEN cycles + 1 ELSE 2
    /\ netActivity' = TRUE
    /\ uploads' = <<>>
    /\ lastUpload' = NoUpload
    /\ warned' = {}
    /\ snaps' = <<>>
    /\ \E ok \in BOOLEAN :
        IF ok
        THEN /\ \E imgs \in [1..Len(cameras) -> Images] :
                    cameras' = Refreshed(cameras, imgs)
             /\ i' = 1
             /\ j' = 0
             /\ jpeg' = NoImage
             /\ cycle' = "running"
             /\ pollErrors' = FALSE
             /\ pc' = "poll_next"
             /\ Running
        ELSE IF RefreshErrorHandler = "propagate"
        THEN /\ PollRaise("refresh_error")
             /\ UNCHANGED <<cameras, i, j, jpeg>>
        ELSE /\ i' = 1
             /\ j' = 0
             /\ jpeg' = NoImage
             /\ cycle' = "running_stale"
             /\ pollErrors' = FALSE
             /\ pc' = "poll_next"
             /\ Running
             /\ UNCHANGED cameras
    /\ UNCHANGED <<config, argv, authData,
                   credFile, mode, pin, setupLocals, started, saves,
                   enumerated>>

\* lines 152-157: next device, read its cached image, skip it if absent
Poll_Next ==
    /\ pc = "poll_next"
    /\ IF i > Len(cameras)
       THEN /\ pc' = "poll_random"
            /\ UNCHANGED <<i, jpeg, warned>>
       ELSE /\ jpeg' = cameras[i].image
            /\ IF IsAbsent(cameras[i].image)
               THEN /\ warned' = warned \cup {i}
                    /\ i' = i + 1
                    /\ pc' = "poll_next"
               ELSE /\ pc' = "poll_upload"
                    /\ UNCHANGED <<i, warned>>
    /\ UNCHANGED <<config, argv, authData,
                   credFile, mode, pin, setupLocals, started, cameras,
                   j, uploads, lastUpload, snaps, cycle, cycles, pollErrors,
                   saves, enumerated, netActivity, exitCode, exitCause>>

\* One call of upload_to_supabase(payload, path) for device dev, the PUT
\* ending with the given status.
UploadCall(payload, path, dev, status) ==
    /\ uploads' = Append(uploads, [path |-> path, payload |-> payload,
                                   dev |-> dev, ok |-> UploadOutcome(status).ret])
    /\ lastUpload' = [status |-> status, ret |-> UploadOutcome(status).ret,
                      logged |-> UploadOutcome(status).logged]

\* lines 159-161: the per-device upload
Poll_Upload ==
    /\ pc = "poll_upload"
    /\ \E status \in Responses :
        /\ UploadCall(jpeg, DevicePath(cameras[i].name), i, status)
        /\ IF UploadOutcome(status).raised
           THEN /\ PollRaise("upload_error")
                /\ UNCHANGED i
           ELSE /\ IF IsPrimary(i)
                   THEN pc' = "poll_alias" /\ UNCHANGED i
                   ELSE pc' = "poll_next" /\ i' = i + 1
                /\ UNCHANGED <<cycle, pollErrors, exitCode, exitCause>>
    /\ UNCHANGED <<config, argv, authData,
                   credFile, mode, pin, setupLocals, started, cameras,
                   jpeg, j, warned, snaps, cycles, saves, enumerated,
                   netActivity>>

\* lines 163-165: the shared alias upload for the first camera
Poll_Alias ==
    /\ pc = "poll_alias"
    /\ \E status \in Responses :
        /\ UploadCall(AliasPayload(jpeg, cameras), SNAPSHOT_PATH, i, status)
        /\ IF UploadOutcome(status).raised
           THEN /\ PollRaise("upload_error")
                /\ UNCHANGED i
           ELSE /\ pc' = "poll_next"
                /\ i' = i + 1
                /\ UNCHANGED <<cycle, pollErrors, exitCode, exitCause>>
    /\ UNCHANGED <<config, argv, authData,
                   credFile, mode, pin, setupLocals, started, cameras,
                   jpeg, j, warned, snaps, cycles, saves, enumerated,
                   netActivity>>

\* lines 167-169: one draw of random.random() < 0.2 per cycle
Poll_Random ==
    /\ pc = "poll_random"
    /\ \E fire \in BOOLEAN :
        IF fire
        THEN /\ j' = 1
             /\ pc' = "poll_snap"
             /\ UNCHANGED <<cycle, pollErrors, exitCode, exitCause>>
        ELSE /\ PollReturn
             /\ UNCHANGED j
    /\ UNCHANGED <<config, argv, authData,
                   credFile, mode, pin, setupLocals, started, cameras,
                   i, jpeg, cycleLog, cycles, saves, enumerated, netActivity>>

\* The per-camera try forgotten: a failed request leaves the loop.
SnapErrorHandler_Propagate == "propagate"

\* lines 171-175: try / except Exception around each snap_picture(), which
\* logs a warning and goes on
SnapErrorHandler == "log_and_continue"

\* lines 170-175: camera.snap_picture() for every camera, each in its own try
Poll_Snap ==
    /\ pc = "poll_snap"
    /\ IF j > Len(cameras)
       THEN /\ PollReturn
            /\ UNCHANGED <<j, snaps>>
       ELSE \E ok \in BOOLEAN :
            /\ snaps' = Append(snaps, [dev |-> j, ok |-> ok])
            /\ IF ~ok /\ SnapErrorHandler = "propagate"
               THEN /\ PollRaise("capture_error")
                    /\ UNCHANGED j
               ELSE /\ j' = j + 1
                    /\ UNCHANGED <<pc, cycle, pollErrors, exitCode, exitCause>>
    /\ UNCHANGED <<config, argv, authData,
                   credFile, mode, pin, setupLocals, started, cameras,
                   i, jpeg, uploads, lastUpload, warned, cycles, saves,
                   enumerated, netActivity>>

\* ------------------------------------------------------- a later invocation
\* The process has ended; the program is invoked again.  Only the credential
\* file (and the environment) carry over.
Restart ==
    /\ pc = "exit"
    /\ pc' = "main"
    /\ mode' = "none"
    /\ pin' = NoPin
    /\ needs_2fa' = FALSE
    /\ result' = "none"
    /\ started' = FALSE
    /\ cameras' = <<>>
    /\ i' = 0
    /\ jpeg' = NoImage
    /\ j' = 0
    /\ uploads' = <<>>
    /\ lastUpload' = NoUpload
    /\ warned' = {}
    /\ snaps' = <<>>
    /\ cycle' = "none"
    /\ cycles' = 0
    /\ pollErrors' = FALSE
    /\ saves' = 0
    /\ enumerated' = FALSE
    /\ netActivity' = FALSE
    /\ exitCode' = -1
    /\ exitCause' = "running"
    /\ argv' \in ArgVectors
    /\ authData' = "none"
    /\ UNCHANGED <<config, credFile>>

Next ==
    \/ Main
    \/ Setup_Start
    \/ Setup_2FA
    \/ Setup_Restart
    \/ Setup_Save
    \/ Once_Restore
    \/ Once_Start
    \/ Once_Save
    \/ Daemon_Entry
    \/ Daemon_Start
    \/ Daemon_Sleep
    \/ Poll_Refresh
    \/ Poll_Next
    \/ Poll_Upload
    \/ Poll_Alias
    \/ Poll_Random
    \/ Poll_Snap
    \/ Restart

Spec == Init /\ [][Next]_vars

\* The process runs its steps one after another and none of them blocks for
\* ever: every step that can be taken is eventually taken.
FairSpec == Spec /\ WF_vars(Next)

\* ================================================================ properties
PollStates == {"poll_refresh", "poll_next", "poll_upload", "poll_alias",
               "poll_random", "poll_snap"}

\* The image is a byte string of at least the minimum size.
ValidImage(img) == img.present /\ img.len >= MinImageBytes
ValidDevices == {k \in 1..Len(cameras) : ValidImage(cameras[k].image)}

DeviceUploads(k) ==
    {u \in 1..Len(uploads) :
        uploads[u].dev = k /\ uploads[u].path = DevicePath(cameras[k].name)}
AliasUploads == {u \in 1..Len(uploads) : uploads[u].path = SNAPSHOT_PATH}
UploadsOf(k) == {u \in 1..Len(uploads) : uploads[u].dev = k}

\* ------------------------------------------------------------------- C1
\* C1 as stated: when poll_once has returned and the first of the N cameras
\* has a valid image, the cycle has issued exactly N+1 uploads.
C1_ExactlyNPlusOne ==
    (cycle = "returned" /\ Len(cameras) >= 1 /\ ValidImage(cameras[1].image))
        => Len(uploads) = Len(cameras) + 1

\* C1 (amended): when poll_once has returned and the first camera has a valid
\* image, the cycle has issued exactly V+1 uploads, V being the number of
\* cameras with a valid image: one per-device upload for each of them plus one
\* alias upload (N+1 when all N cameras have a valid image).
C1_ValidPlusOne ==
    (cycle = "returned" /\ Len(cameras) >= 1 /\ ValidImage(cameras[1].image))
        => /\ Len(uploads) = Cardinality(ValidDevices) + 1
           /\ \A k \in ValidDevices : Cardinality(DeviceUploads(k)) = 1
           /\ Cardinality(AliasUploads) = 1

C1_Witness ==
    /\ cycle = "returned"
    /\ Len(cameras) = 2
    /\ ValidDevices = {1, 2}
    /\ Len(uploads) = 3

\* ------------------------------------------------------------------- C2
\* C2: at every moment, each alias upload of the current cycle carries the
\* payload of the first camera's per-device upload of that cycle, issued
\* before it, and that payload is the camera's cached image.
C2_AliasSamePayload ==
    \A a \in AliasUploads :
        /\ \E u \in DeviceUploads(1) :
              u < a /\ uploads[u].payload = uploads[a].payload
        /\ uploads[a].payload = cameras[1].image

C2_Witness ==
    /\ Len(cameras) = 2
    /\ AliasUploads # {}
    /\ DeviceUploads(2) # {}
    /\ cameras[2].image # cameras[1].image

\* ------------------------------------------------------------------- C3
\* C3: in a cycle whose refresh succeeded, a camera whose cached image is
\* absent or shorter than 100 bytes never gets an upload and has its warning
\* logged as soon as the loop has passed it; and when poll_once returns every
\* camera has been processed: it was warned about or uploaded.
C3_AbsentSkipped ==
    (cycle \in {"running", "returned"}) =>
        /\ \A k \in 1..Len(cameras) :
              ~ValidImage(cameras[k].image) =>
                  /\ UploadsOf(k) = {}
                  /\ (k < i => k \in warned)
        /\ cycle = "returned" =>
              \A k \in 1..Len(cameras) : k \in warned \/ DeviceUploads(k) # {}

C3_Witness ==
    /\ cycle = "returned"
    /\ Len(cameras) = 2
    /\ cameras[1].image = Bytes(99)
    /\ warned = {1}
    /\ DeviceUploads(2) # {}

C5_CycleNeverThrows == cycle # "raised"

\* ------------------------------------------------------------------- C6
InDaemonLoop == mode = "daemon" /\ pc \in PollStates \cup {"daemon_sleep"}

\* C6: once in the polling loop the daemon stays in it; every cycle, returned
\* or raised, ends in the sleep and in nothing else, the sleep is followed by
\* the next cycle, and every cycle begun leads to a sleep and every sleep to
\* the beginning of a cycle.
C6_DaemonLoopsForever ==
    /\ [][InDaemonLoop => InDaemonLoop']_vars
    /\ [][(InDaemonLoop /\ pc \in PollStates /\ pc' \notin PollStates)
              => (pc' = "daemon_sleep" /\ cycle' \in {"returned", "raised"})]_vars
    /\ [][(InDaemonLoop /\ pc = "daemon_sleep") => pc' = "poll_refresh"]_vars
    /\ (InDaemonLoop /\ pc = "poll_refresh") ~> (pc = "daemon_sleep")
    /\ (InDaemonLoop /\ pc = "daemon_sleep") ~> (pc = "poll_refresh")

C6_Witness ==
    /\ mode = "daemon"
    /\ pc = "daemon_sleep"
    /\ cycles = 2
    /\ cycle = "raised"
    /\ pollErrors

\* ------------------------------------------------------------------- C7
\* C7 as stated: a once-mode process that began its poll cycle and has ended
\* ran one cycle, saved the session once and exited with status 0.
C7_OnceExitsZero ==
    (mode = "once" /\ pc = "exit" /\ cycles >= 1)
        => (cycles = 1 /\ saves = 1 /\ exitCode = 0)

\* ------------------------------------------------------------------- C8
\* C8: in setup mode, while 2FA is required and no pin has been accepted the
\* session is AwaitingTwoFactor and no camera is listed and nothing is saved;
\* a rejected pin leaves it there and ends the run with status 0; an accepted
\* pin makes it Ready and the run goes on to save and list the cameras.
C8_SetupTransitions ==
    mode = "setup" =>
        /\ (needs_2fa /\ result # "accepted") =>
              /\ SessionState \in {"AwaitingTwoFactor", "Fatal"}
              /\ ~enumerated
              /\ ~started
              /\ saves = 0
        /\ result = "rejected" =>
              /\ needs_2fa
              /\ SessionState = "AwaitingTwoFactor"
              /\ pc = "exit"
              /\ exitCode = 0
        /\ result = "accepted" =>
              /\ needs_2fa
              /\ SessionState = "Ready"
              /\ pc \in {"setup_restart", "setup_save", "exit"}
              /\ pc = "exit" => (enumerated /\ saves = 1 /\ exitCode = 0)

C8_Witness ==
    /\ mode = "setup"
    /\ needs_2fa
    /\ result = "rejected"
    /\ pc = "exit"
    /\ saves = 0
    /\ ~enumerated

\* ------------------------------------------------------------------- C9
\* C9 as stated: whenever a process has completed a successful transition
\* and moved on (setup ended after a successful login or an accepted pin, a
\* poll cycle returned and the process sleeps or has ended), it has saved
\* the session.
C9_PersistedAfterTransitions ==
    /\ (mode = "setup" /\ pc = "exit" /\ (started \/ result = "accepted"))
          => saves >= 1
    /\ (cycle = "returned" /\ pc \in {"daemon_sleep", "exit"}) => saves >= 1

ConfigExit == ~netActivity /\ pc \in {"main", "exit"} /\ (pc = "exit" => exitCode # 0)

\* C11 as stated: with SUPABASE_URL, SUPABASE_SERVICE_ROLE_KEY, BLINK_EMAIL
\* or BLINK_PASSWORD absent from the environment the process never gets past
\* main(): it makes no network call and ends with a non-zero status.
C11_AnyCredentialAbsentExits ==
    (SUPABASE_URL = DefaultUrl \/ SUPABASE_KEY = "" \/ BLINK_EMAIL = ""
        \/ BLINK_PASSWORD = "") => ConfigExit

\* C11 (amended): with SUPABASE_SERVICE_ROLE_KEY, BLINK_EMAIL or
\* BLINK_PASSWORD absent the process never gets past main(), whatever the
\* arguments: no network call, exit status 1.  (SUPABASE_URL has a default
\* and is not required.)
C11_RequiredCredentialsChecked ==
    (SUPABASE_KEY = "" \/ BLINK_EMAIL = "" \/ BLINK_PASSWORD = "") =>
        /\ ConfigExit
        /\ mode = "none"
        /\ pc = "exit" => exitCode = 1

C11_Witness ==
    /\ pc = "exit"
    /\ exitCode = 1
    /\ SUPABASE_KEY = ""
    /\ BLINK_EMAIL # ""
    /\ BLINK_PASSWORD # ""
    /\ SelectMode(argv) = "once"
    /\ ~netActivity

\* ------------------------------------------------------------------ C12
\* C12 as stated: the most recent upload returned True for every 2xx status,
\* and for every other response returned False and logged the status code
\* with the truncated body.
C12_SuccessIsAny2xx ==
    lastUpload.status > 0 =>
        IF lastUpload.status >= 200 /\ lastUpload.status < 300
        THEN lastUpload.ret
        ELSE ~lastUpload.ret /\ lastUpload.logged = "ERROR:status+body[:200]"

\* ------------------------------------------------------------------ C13
\* C13: a setup run whose login succeeded without 2FA ends with the session
\* saved; a once or daemon run builds its Auth from what the credential file
\* holds, never from BLINK_EMAIL/BLINK_PASSWORD, has made no network call when
\* it comes to blink.start(), and begins its first cycle only after
\* blink.start() returned.
C13_RestoreWithoutReauth ==
    /\ (mode = "setup" /\ pc = "exit" /\ started /\ ~needs_2fa) =>
          (saves = 1 /\ credFile = "session" /\ exitCode = 0)
    /\ pc \in {"once_start", "daemon_start"} =>
          /\ ~netActivity
          /\ authData # "env"
          /\ credFile = "session" => authData = "file"
    /\ (mode \in {"once", "daemon"} /\ pc \in PollStates) =>
          (started /\ authData # "env")

C13_Witness ==
    /\ mode = "daemon"
    /\ pc = "poll_refresh"
    /\ cycles = 0
    /\ started
    /\ authData = "file"
    /\ credFile = "session"

\* ------------------------------------------------------------------ C14
ArgSet == {argv[k] : k \in 1..Len(argv)}
ExpectedMode ==
    IF "--setup" \in ArgSet THEN "setup"
    ELSE IF "--once" \in ArgSet THEN "once"
    ELSE "daemon"
SetupStates == {"setup_start", "setup_2fa", "setup_restart", "setup_save"}
OnceStates == {"once_restore", "once_start", "once_save"} \cup PollStates
DaemonStates == {"daemon_entry", "daemon_start", "daemon_sleep"} \cup PollStates

\* C14: when a mode begins it is the one the argument vector selects (setup
\* if --setup occurs, else once if --once occurs, else daemon, whatever else
\* the vector holds), and a process only ever takes the steps of its one
\* mode: setup runs no cycle, once and daemon list no cameras, the daemon
\* never saves.
C14_ExactlyOneMode ==
    /\ pc \in {"setup_start", "once_restore", "daemon_entry"} =>
          /\ mode = ExpectedMode
          /\ pc = CASE ExpectedMode = "setup" -> "setup_start"
                    [] ExpectedMode = "once" -> "once_restore"
                    [] OTHER -> "daemon_entry"
    /\ mode = "none" => pc \in {"main", "exit"}
    /\ mode = "setup" => (pc \in SetupStates \cup {"exit"} /\ cycles = 0)
    /\ mode = "once" => (pc \in OnceStates \cup {"exit"} /\ ~enumerated /\ cycles <= 1)
    /\ mode = "daemon" => (pc \in DaemonStates \cup {"exit"} /\ ~enumerated /\ saves = 0)

C14_Witness ==
    /\ pc = "setup_start"
    /\ mode = "setup"
    /\ argv = <<"--once", "--setup">>

\* ------------------------------------------------------------------ C15
\* C15: the capture requests of a cycle are for cameras 1, 2, ... in order,
\* one each; when poll_once returns there are none or one for every camera;
\* no capture request ends the cycle.
C15_CaptureAllOrNone ==
    /\ \A k \in 1..Len(snaps) : snaps[k].dev = k
    /\ Len(snaps) <= Len(cameras)
    /\ pc = "poll_snap" => Len(snaps) = j - 1
    /\ cycle = "returned" => (snaps = <<>> \/ Len(snaps) = Len(cameras))
    /\ cycle = "raised" => snaps = <<>>

C15_Witness ==
    /\ cycle = "returned"
    /\ Len(cameras) = 2
    /\ cameras[1].image = NoImage
    /\ Len(snaps) = 2
    /\ ~snaps[1].ok
    /\ snaps[2].ok

\* ------------------------------------------------------------------ C16
\* C16: the uploads of a cycle are in camera order, at most one per camera
\* path; the first camera's upload is the first of the cycle and the alias
\* upload, and nothing else, comes right after it; and no cycle begins while
\* another is open: at the refresh the record of the previous one is closed.
C16_UploadsSerialized ==
    /\ \A u, v \in 1..Len(uploads) : u < v => uploads[u].dev <= uploads[v].dev
    /\ \A k \in 1..Len(cameras) : Cardinality(DeviceUploads(k)) <= 1
    /\ \A a \in AliasUploads : a - 1 \in DeviceUploads(1)
    /\ \A u \in DeviceUploads(1) :
          /\ u = 1
          /\ IF u = Len(uploads) THEN pc = "poll_alias" ELSE u + 1 \in AliasUploads
    /\ pc = "poll_alias" => (uploads # <<>> /\ Len(uploads) \in DeviceUploads(1))
    /\ pc = "poll_refresh" => (cycle = "none" /\ uploads = <<>>)
    /\ cycle = "running" => pc \in PollStates \ {"poll_refresh"}

C16_Witness ==
    /\ cycles = 2
    /\ Len(uploads) = 3
    /\ uploads[1].dev = 1
    /\ uploads[2].path = SNAPSHOT_PATH
    /\ uploads[3].dev = 2

\* ------------------------------------------------------------------ C17
\* C17: a cycle has at most one alias upload, it is for camera 1 and carries
\* a valid image; and in a cycle whose first camera has no valid image there
\* is no alias upload, whatever the other cameras hold.
C17_AliasOnlyFromFirst ==
    /\ Cardinality(AliasUploads) <= 1
    /\ \A a \in AliasUploads :
          uploads[a].dev = 1 /\ ValidImage(uploads[a].payload)
    /\ (cycle \in {"running", "returned"} /\ Len(cameras) >= 1
            /\ ~ValidImage(cameras[1].image)) => AliasUploads = {}

C17_Witness ==
    /\ cycle = "returned"
    /\ Len(cameras) = 2
    /\ cameras[1].image = NoImage
    /\ DeviceUploads(2) # {}
    /\ AliasUploads = {}

\* ------------------------------------------------------------------ C18
\* C18: uploads, warnings and capture requests exist only in a cycle whose
\* refresh has returned; a cycle that ended with an exception has none; and
\* once a capture request has been made the upload loop is over.
C18_PhasesOrdered ==
    /\ (uploads # <<>> \/ snaps # <<>> \/ warned # {}) =>
          cycle \in {"running", "returned"}
    /\ pc = "poll_refresh" => (uploads = <<>> /\ snaps = <<>>)
    /\ cycle = "raised" => (uploads = <<>> /\ snaps = <<>> /\ warned = {})
    /\ pc \in {"poll_next", "poll_upload", "poll_alias", "poll_random"} =>
          snaps = <<>>
    /\ snaps # <<>> => i > Len(cameras)

C18_Witness ==
    /\ cycle = "returned"
    /\ cycles = 2
    /\ Len(uploads) >= 2
    /\ Len(snaps) >= 1

\* ------------------------------------------------------------------ C19
SetupAuthenticated == (started /\ ~needs_2fa) \/ result = "accepted"

\* C19: a setup run that has ended called blink.save once if the login
\* succeeded without 2FA or the pin was accepted, and never otherwise; no
\* setup run saves before that; and the credential file changes only in a
\* step that saves.
C19_SetupSavesExactlyWhen ==
    /\ [](mode = "setup" =>
            /\ saves <= 1
            /\ pc = "exit" => (saves = 1 <=> SetupAuthenticated)
            /\ pc # "exit" => saves = 0)
    /\ [][credFile' # credFile => saves' = saves + 1]_vars

C19_Witness ==
    /\ mode = "setup"
    /\ pc = "exit"
    /\ result = "accepted"
    /\ ~started
    /\ saves = 1
    /\ credFile = "session"

\* ------------------------------------------------------------------ C20
\* C20: a daemon is in a poll cycle only with an Auth built from an existing
\* credential file and after blink.start() returned; a missing credential
\* file ends it with status 1 before any network call; and a daemon that has
\* ended did so with status 1 before its first cycle.
C20_DaemonGuards ==
    /\ (mode = "daemon" /\ (pc \in PollStates \/ cycles >= 1)) =>
          (started /\ authData = "file")
    /\ exitCause = "no_cred_file" =>
          (mode = "daemon" /\ exitCode = 1 /\ ~netActivity /\ cycles = 0)
    /\ (mode = "daemon" /\ pc = "exit") =>
          (exitCode = 1 /\ cycles = 0 /\ ~started)

C20_Witness ==
    /\ pc = "exit"
    /\ exitCause = "no_cred_file"
    /\ exitCode = 1
    /\ ~netActivity

====
